---- MODULE Spec2Model ----
(***************************************************************************)
(* Model of needleman_wunsch.py: the Needleman-Wunsch global aligner       *)
(* (needleman_wunsch) followed by calculate_alignment_statistics.          *)
(*                                                                         *)
(* Python strings are modelled as sequences of one-character strings, so   *)
(* ''.join(list_of_chars) is the list itself.  Python lists are 0-based;   *)
(* matrices are functions over 0..n-1 and strings are read through PyGet,  *)
(* which applies Python's negative-index wrap-around.                      *)
(***************************************************************************)
EXTENDS Integers, Sequences, FiniteSets, TLC

VARIABLES seq1, seq2, match, mismatch, gap,
          scoring_matrix, traceback_matrix,
          i, j,
          aligned_seq1, aligned_seq2, traceback_path,
          alignment_score, stats, pc

vars == <<seq1, seq2, match, mismatch, gap, scoring_matrix, traceback_matrix,
          i, j, aligned_seq1, aligned_seq2, traceback_path,
          alignment_score, stats, pc>>

(* ---------------- bounds and input domains ---------------- *)

MaxLen == 2

GapMarker == "-"

Alphabet == {"A", "C", GapMarker}

DefaultMatch == 1

DefaultMismatch == -1

DefaultGap == -2

MatchVals == {DefaultMatch, -1}

MismatchVals == {DefaultMismatch, 1}

GapVals == {DefaultGap, -1, 1}

InputSeqs == UNION {[1..k -> Alphabet] : k \in 0..MaxLen}

(* ---------------- Python helpers ---------------- *)

PyIdx(k, len) == IF k < 0 THEN k + len ELSE k

InRange(k, len) == PyIdx(k, len) >= 0 /\ PyIdx(k, len) < len

PyGet(s, k) == s[PyIdx(k, Len(s)) + 1]

Reversed(s) == [k \in 1..Len(s) |-> s[Len(s) + 1 - k]]

n == Len(seq1) + 1

m == Len(seq2) + 1

(* ---------------- fill phase ---------------- *)

MatchMismatch(sm, s1, s2, a, b, mt, mis) ==
    sm[a - 1][b - 1] + (IF PyGet(s1, a - 1) = PyGet(s2, b - 1) THEN mt ELSE mis)

InsertGapSeq1(sm, a, b, g) == sm[a - 1][b] + g

InsertGapSeq2(sm, a, b, g) == sm[a][b - 1] + g

Max3_NoLeft(x, y, z) == IF x >= y THEN x ELSE y

Max3(x, y, z) ==
    IF x >= y /\ x >= z THEN x ELSE IF y >= z THEN y ELSE z

TagOf_UpFirst(score, d, u, l) ==
    IF score = u THEN "U" ELSE IF score = d THEN "D" ELSE "L"

TagOf_SwapUL(score, d, u, l) ==
    IF score = d THEN "D" ELSE IF score = l THEN "U" ELSE "L"

TagOf(score, d, u, l) ==
    IF score = d THEN "D" ELSE IF score = u THEN "U" ELSE "L"

Init ==
    /\ seq1 \in InputSeqs
    /\ seq2 \in InputSeqs
    /\ match \in MatchVals
    /\ mismatch \in MismatchVals
    /\ gap \in GapVals
    /\ scoring_matrix = [a \in 0..Len(seq1) |-> [b \in 0..Len(seq2) |-> 0]]
    /\ traceback_matrix = [a \in 0..Len(seq1) |-> [b \in 0..Len(seq2) |-> "None"]]
    /\ i = 1
    /\ j = 1
    /\ aligned_seq1 = <<>>
    /\ aligned_seq2 = <<>>
    /\ traceback_path = <<>>
    /\ alignment_score = 0
    /\ stats = <<>>
    /\ pc = "init_col"

InitColumnStep ==
    /\ pc = "init_col"
    /\ i < n
    /\ scoring_matrix' = [scoring_matrix EXCEPT ![i][0] = i * gap]
    /\ traceback_matrix' = [traceback_matrix EXCEPT ![i][0] = "U"]
    /\ i' = i + 1
    /\ UNCHANGED <<seq1, seq2, match, mismatch, gap, j, aligned_seq1,
                   aligned_seq2, traceback_path, alignment_score, stats, pc>>

InitColumnDone ==
    /\ pc = "init_col"
    /\ ~(i < n)
    /\ j' = 1
    /\ pc' = "init_row"
    /\ UNCHANGED <<seq1, seq2, match, mismatch, gap, scoring_matrix,
                   traceback_matrix, i, aligned_seq1, aligned_seq2,
                   traceback_path, alignment_score, stats>>

InitRowStep ==
    /\ pc = "init_row"
    /\ j < m
    /\ scoring_matrix' = [scoring_matrix EXCEPT ![0][j] = j * gap]
    /\ traceback_matrix' = [traceback_matrix EXCEPT ![0][j] = "L"]
    /\ j' = j + 1
    /\ UNCHANGED <<seq1, seq2, match, mismatch, gap, i, aligned_seq1,
                   aligned_seq2, traceback_path, alignment_score, stats, pc>>

InitRowDone ==
    /\ pc = "init_row"
    /\ ~(j < m)
    /\ i' = 1
    /\ j' = 1
    /\ pc' = "fill"
    /\ UNCHANGED <<seq1, seq2, match, mismatch, gap, scoring_matrix,
                   traceback_matrix, aligned_seq1, aligned_seq2,
                   traceback_path, alignment_score, stats>>

FillCell ==
    /\ pc = "fill"
    /\ i < n
    /\ j < m
    /\ LET match_mismatch == MatchMismatch(scoring_matrix, seq1, seq2, i, j, match, mismatch)
           insert_gap_seq1 == InsertGapSeq1(scoring_matrix, i, j, gap)
           insert_gap_seq2 == InsertGapSeq2(scoring_matrix, i, j, gap)
           score == Max3(match_mismatch, insert_gap_seq1, insert_gap_seq2)
       IN /\ scoring_matrix' = [scoring_matrix EXCEPT ![i][j] = score]
          /\ traceback_matrix' = [traceback_matrix EXCEPT ![i][j] =
                 TagOf(score, match_mismatch, insert_gap_seq1, insert_gap_seq2)]
    /\ j' = j + 1
    /\ UNCHANGED <<seq1, seq2, match, mismatch, gap, i, aligned_seq1,
                   aligned_seq2, traceback_path, alignment_score, stats, pc>>

FillRowEnd ==
    /\ pc = "fill"
    /\ i < n
    /\ ~(j < m)
    /\ i' = i + 1
    /\ j' = 1
    /\ UNCHANGED <<seq1, seq2, match, mismatch, gap, scoring_matrix,
                   traceback_matrix, aligned_seq1, aligned_seq2,
                   traceback_path, alignment_score, stats, pc>>

FillDone ==
    /\ pc = "fill"
    /\ ~(i < n)
    /\ aligned_seq1' = <<>>
    /\ aligned_seq2' = <<>>
    /\ traceback_path' = <<>>
    /\ i' = Len(seq1)
    /\ j' = Len(seq2)
    /\ pc' = "traceback"
    /\ UNCHANGED <<seq1, seq2, match, mismatch, gap, scoring_matrix,
                   traceback_matrix, alignment_score, stats>>

(* ---------------- traceback phase ---------------- *)

LoopCond(a, b) == a > 0 \/ b > 0

TagAt(tm, a, b) == tm[PyIdx(a, Len(seq1) + 1)][PyIdx(b, Len(seq2) + 1)]

EmitDiag(a1, a2, s1, s2, a, b) ==
    <<Append(a1, PyGet(s1, a - 1)), Append(a2, PyGet(s2, b - 1))>>

EmitUp_NoGap(a1, a2, s1, a) == <<Append(a1, PyGet(s1, a - 1)), a2>>

EmitUp(a1, a2, s1, a) ==
    <<Append(a1, PyGet(s1, a - 1)), Append(a2, GapMarker)>>

EmitLeft_GapBoth(a1, a2, s2, b) ==
    <<Append(a1, GapMarker), Append(a2, GapMarker)>>

EmitLeft_WrongIndex(a1, a2, s2, b) ==
    <<Append(a1, GapMarker), Append(a2, PyGet(s2, b - 2))>>

EmitLeft(a1, a2, s2, b) ==
    <<Append(a1, GapMarker), Append(a2, PyGet(s2, b - 1))>>

NextIJ_UpDecJ(tag, a, b) ==
    IF tag = "D" THEN <<a - 1, b - 1>>
    ELSE IF tag = "U" THEN <<a, b - 1>>
    ELSE IF tag = "L" THEN <<a, b - 1>>
    ELSE <<a, b>>

NextIJ(tag, a, b) ==
    IF tag = "D" THEN <<a - 1, b - 1>>
    ELSE IF tag = "U" THEN <<a - 1, b>>
    ELSE IF tag = "L" THEN <<a, b - 1>>
    ELSE <<a, b>>

Emit(tag, a1, a2, s1, s2, a, b) ==
    IF tag = "D" THEN EmitDiag(a1, a2, s1, s2, a, b)
    ELSE IF tag = "U" THEN EmitUp(a1, a2, s1, a)
    ELSE IF tag = "L" THEN EmitLeft(a1, a2, s2, b)
    ELSE <<a1, a2>>

ReadsOk(tag, a, b) ==
    /\ tag \in {"D", "U"} => InRange(a - 1, Len(seq1))
    /\ tag \in {"D", "L"} => InRange(b - 1, Len(seq2))

TracebackStep ==
    /\ pc = "traceback"
    /\ LoopCond(i, j)
    /\ traceback_path' = Append(traceback_path, <<i, j>>)
    /\ IF InRange(i, n) /\ InRange(j, m) /\ ReadsOk(TagAt(traceback_matrix, i, j), i, j)
       THEN LET tag == TagAt(traceback_matrix, i, j)
                e == Emit(tag, aligned_seq1, aligned_seq2, seq1, seq2, i, j)
                ij == NextIJ(tag, i, j)
            IN /\ aligned_seq1' = e[1]
               /\ aligned_seq2' = e[2]
               /\ i' = ij[1]
               /\ j' = ij[2]
               /\ pc' = pc
       ELSE /\ pc' = "IndexError"
            /\ UNCHANGED <<aligned_seq1, aligned_seq2, i, j>>
    /\ UNCHANGED <<seq1, seq2, match, mismatch, gap, scoring_matrix,
                   traceback_matrix, alignment_score, stats>>

PathReversed_Not(p) == p

PathReversed(p) == Reversed(p)

TracebackDone ==
    /\ pc = "traceback"
    /\ ~LoopCond(i, j)
    /\ aligned_seq1' = Reversed(aligned_seq1)
    /\ aligned_seq2' = Reversed(aligned_seq2)
    /\ traceback_path' = PathReversed(traceback_path)
    /\ alignment_score' = scoring_matrix[Len(seq1)][Len(seq2)]
    /\ pc' = "returned"
    /\ UNCHANGED <<seq1, seq2, match, mismatch, gap, scoring_matrix,
                   traceback_matrix, i, j, stats>>

(* ---------------- calculate_alignment_statistics ---------------- *)

Zip(a1, a2) == 1..(IF Len(a1) <= Len(a2) THEN Len(a1) ELSE Len(a2))

Matches(a1, a2) == Cardinality({k \in Zip(a1, a2) : a1[k] = a2[k]})

Mismatches(a1, a2) ==
    Cardinality({k \in Zip(a1, a2) :
                    a1[k] # a2[k] /\ a1[k] # GapMarker /\ a2[k] # GapMarker})

Gaps(a1, a2) ==
    Cardinality({k \in Zip(a1, a2) : a1[k] = GapMarker \/ a2[k] = GapMarker})

\* (count / total) * 100 as the exact rational num/den.  stats is <<>> until
\* calculate_alignment_statistics returns, then <<the returned dict>>.
Percentage(count, total) == [num |-> count * 100, den |-> total]

CalculateAlignmentStatistics ==
    /\ pc = "returned"
    /\ LET total == Len(aligned_seq1)
       IN IF total = 0
          THEN /\ pc' = "ZeroDivisionError"
               /\ stats' = stats
          ELSE /\ pc' = "done"
               /\ stats' = <<[matches |-> Matches(aligned_seq1, aligned_seq2),
                            mismatches |-> Mismatches(aligned_seq1, aligned_seq2),
                            gaps |-> Gaps(aligned_seq1, aligned_seq2),
                            match_percentage |->
                                Percentage(Matches(aligned_seq1, aligned_seq2), total),
                            gap_percentage |->
                                Percentage(Gaps(aligned_seq1, aligned_seq2), total)]>>
    /\ UNCHANGED <<seq1, seq2, match, mismatch, gap, scoring_matrix,
                   traceback_matrix, i, j, aligned_seq1, aligned_seq2,
                   traceback_path, alignment_score>>

Next ==
    \/ InitColumnStep
    \/ InitColumnDone
    \/ InitRowStep
    \/ InitRowDone
    \/ FillCell
    \/ FillRowEnd
    \/ FillDone
    \/ TracebackStep
    \/ TracebackDone
    \/ CalculateAlignmentStatistics

Spec == Init /\ [][Next]_vars

FairSpec == Spec /\ WF_vars(Next)

(* ======================= properties ======================= *)

N1 == Len(seq1)

N2 == Len(seq2)

Returned == pc \in {"returned", "done", "ZeroDivisionError"}

FillFinished == pc \in {"traceback", "returned", "done", "ZeroDivisionError"}

NoGap(s) == \A k \in 1..Len(s) : s[k] # GapMarker

RECURSIVE SumSeq(_)
SumSeq(s) == IF s = <<>> THEN 0 ELSE s[1] + SumSeq(Tail(s))

RECURSIVE MaxOf(_)
MaxOf(S) ==
    LET x == CHOOSE y \in S : TRUE
    IN IF S = {x} THEN x
       ELSE LET r == MaxOf(S \ {x}) IN IF x >= r THEN x ELSE r

\* A global alignment of seq1[1..a] with seq2[1..b] is a sequence of columns
\* <<p, q>>: p is a position of seq1 or 0 (gap), q a position of seq2 or 0
\* (gap), never both 0, the positions of each sequence appearing once, in order.
RECURSIVE Alignments(_, _)
Alignments(a, b) ==
    IF a = 0 /\ b = 0 THEN {<<>>}
    ELSE (IF a > 0 /\ b > 0
            THEN {Append(al, <<a, b>>) : al \in Alignments(a - 1, b - 1)} ELSE {})
         \cup (IF a > 0
            THEN {Append(al, <<a, 0>>) : al \in Alignments(a - 1, b)} ELSE {})
         \cup (IF b > 0
            THEN {Append(al, <<0, b>>) : al \in Alignments(a, b - 1)} ELSE {})

ColumnScore(col) ==
    IF col[1] = 0 \/ col[2] = 0 THEN gap
    ELSE IF seq1[col[1]] = seq2[col[2]] THEN match ELSE mismatch

AlignmentScore(al) == SumSeq([k \in 1..Len(al) |-> ColumnScore(al[k])])

OptimalScore(a, b) == MaxOf({AlignmentScore(al) : al \in Alignments(a, b)})

\* score of the returned alignment read column by column, as characters
CharColumnScore(x, y) ==
    IF x = GapMarker \/ y = GapMarker THEN gap
    ELSE IF x = y THEN match ELSE mismatch

ReturnedAlignmentScore ==
    SumSeq([k \in 1..Len(aligned_seq1) |->
               CharColumnScore(aligned_seq1[k], aligned_seq2[k])])

RemoveGaps(s) == SelectSeq(s, LAMBDA c : c # GapMarker)

DiagonalSteps ==
    Cardinality({k \in 1..Len(traceback_path) :
        traceback_matrix[traceback_path[k][1]][traceback_path[k][2]] = "D"})

\* C1: every cell (a,b) of the returned scoring matrix equals the maximum
\* score over all global alignments of the length-a prefix of seq1 with the
\* length-b prefix of seq2, for every sign of match, mismatch and gap.
C1_ScoringMatrixOptimal ==
    pc = "returned" =>
        \A a \in 0..N1 : \A b \in 0..N2 :
            scoring_matrix[a][b] = OptimalScore(a, b)

C1_Witness ==
    /\ pc = "returned"
    /\ N1 = 2 /\ N2 = 2 /\ seq1 # seq2
    /\ gap > 0 /\ mismatch > match
    /\ scoring_matrix[2][2] # scoring_matrix[1][1] + mismatch

\* C2: for inputs without the gap marker, the returned alignment scored
\* column by column sums to the returned alignment_score, which is
\* scoring_matrix[len(seq1)][len(seq2)] and is the optimal score.
C2_AlignmentScoreConsistent ==
    (pc = "returned" /\ NoGap(seq1) /\ NoGap(seq2)) =>
        /\ ReturnedAlignmentScore = alignment_score
        /\ alignment_score = scoring_matrix[N1][N2]
        /\ alignment_score = OptimalScore(N1, N2)

C2_Witness ==
    /\ pc = "returned" /\ NoGap(seq1) /\ NoGap(seq2)
    /\ N1 = 2 /\ N2 = 1
    /\ \E k \in 1..Len(aligned_seq1) : aligned_seq2[k] = GapMarker
    /\ \E k \in 1..Len(aligned_seq1) :
          aligned_seq1[k] # aligned_seq2[k] /\ aligned_seq2[k] # GapMarker

\* C3: the two returned aligned sequences have equal length, for all inputs
\* (empty ones and ones containing the gap marker included).
C3_EqualLength ==
    Returned => Len(aligned_seq1) = Len(aligned_seq2)

C3_Witness ==
    /\ Returned
    /\ N1 = 2 /\ N2 = 1
    /\ Len(aligned_seq1) = 2
    /\ \E k \in 1..2 : aligned_seq2[k] = GapMarker /\ aligned_seq1[k] # GapMarker

\* C4 (as stated): for ALL inputs, no position of the returned alignment has
\* the gap marker in both aligned sequences.
C4_Original ==
    Returned =>
        \A k \in 1..Len(aligned_seq1) :
            ~(aligned_seq1[k] = GapMarker /\ aligned_seq2[k] = GapMarker)

\* C4 (amended): when neither seq1 nor seq2 contains the gap marker, no
\* position of the returned alignment has the gap marker in both sequences.
C4_NoGapGap ==
    (Returned /\ NoGap(seq1) /\ NoGap(seq2)) =>
        \A k \in 1..Len(aligned_seq1) :
            ~(aligned_seq1[k] = GapMarker /\ aligned_seq2[k] = GapMarker)

C4_Witness ==
    /\ Returned
    /\ NoGap(seq1) /\ NoGap(seq2)
    /\ N1 = 1 /\ N2 = 2
    /\ \E k \in 1..Len(aligned_seq1) : aligned_seq1[k] = GapMarker

\* C5: calculate_alignment_statistics on two zero-length aligned sequences
\* returns match_percentage 0 and gap_percentage 0 and raises nothing.
C5_EmptyStatisticsZero ==
    (pc \in {"done", "ZeroDivisionError"}
        /\ Len(aligned_seq1) = 0 /\ Len(aligned_seq2) = 0) =>
        /\ pc = "done"
        /\ stats[1].match_percentage.num = 0
        /\ stats[1].gap_percentage.num = 0

\* C6: aligning seq with itself under match=+1, mismatch=-1, gap=-2 returns
\* score len(seq) and both aligned sequences equal to seq, and the statistics
\* report zero mismatches and zero gaps.
C6_SelfAlignment ==
    (pc \in {"done", "ZeroDivisionError"} /\ seq1 = seq2
        /\ match = DefaultMatch /\ mismatch = DefaultMismatch /\ gap = DefaultGap) =>
        /\ alignment_score = N1
        /\ aligned_seq1 = seq1
        /\ aligned_seq2 = seq1
        /\ pc = "done"
        /\ stats[1].mismatches = 0
        /\ stats[1].gaps = 0

\* C7: for inputs without the gap marker, deleting every gap marker from
\* aligned_seq1 gives seq1 and from aligned_seq2 gives seq2.
C7_GapsRemovedGiveInputs ==
    (Returned /\ NoGap(seq1) /\ NoGap(seq2)) =>
        /\ RemoveGaps(aligned_seq1) = seq1
        /\ RemoveGaps(aligned_seq2) = seq2

C7_Witness ==
    /\ Returned /\ NoGap(seq1) /\ NoGap(seq2)
    /\ N1 = 2 /\ N2 = 2
    /\ seq1[1] # seq1[2] /\ seq2[1] # seq2[2]
    /\ Len(aligned_seq1) > 2

\* C8: the returned traceback path never contains (0,0); when non-empty its
\* last element is (len(seq1), len(seq2)); it is in forward order (each cell
\* is its predecessor plus one Diagonal, Up or Left step, starting one step
\* from (0,0)); its length is len(aligned_seq1) = n + m - k, k the number of
\* Diagonal steps.
C8_TracebackPath ==
    Returned =>
        /\ \A k \in 1..Len(traceback_path) : traceback_path[k] # <<0, 0>>
        /\ traceback_path # <<>> =>
              traceback_path[Len(traceback_path)] = <<N1, N2>>
        /\ \A k \in 1..Len(traceback_path) :
              LET prev == IF k = 1 THEN <<0, 0>> ELSE traceback_path[k - 1]
              IN <<traceback_path[k][1] - prev[1], traceback_path[k][2] - prev[2]>>
                    \in {<<1, 1>>, <<1, 0>>, <<0, 1>>}
        /\ Len(traceback_path) = Len(aligned_seq1)
        /\ Len(traceback_path) = N1 + N2 - DiagonalSteps

C8_Witness ==
    /\ Returned
    /\ Len(traceback_path) = 3
    /\ DiagonalSteps = 1
    /\ N1 = 2 /\ N2 = 2

\* C9: after the fill phase every interior cell is tagged by the priority
\* Diagonal > Up > Left against its three candidates, every cell (a,0), a>=1,
\* is tagged Up and every cell (0,b), b>=1, is tagged Left.
C9_TagPriority ==
    FillFinished =>
        /\ \A a \in 1..N1 : \A b \in 1..N2 :
              LET s == scoring_matrix[a][b]
                  d == MatchMismatch(scoring_matrix, seq1, seq2, a, b, match, mismatch)
                  u == InsertGapSeq1(scoring_matrix, a, b, gap)
                  l == InsertGapSeq2(scoring_matrix, a, b, gap)
                  t == traceback_matrix[a][b]
              IN /\ s = d => t = "D"
                 /\ t = "U" <=> (s # d /\ s = u)
                 /\ t = "L" => (s # d /\ s # u)
                 /\ t \in {"D", "U", "L"}
        /\ \A a \in 1..N1 : traceback_matrix[a][0] = "U"
        /\ \A b \in 1..N2 : traceback_matrix[0][b] = "L"

C9_Witness ==
    /\ FillFinished
    /\ N1 = 2 /\ N2 = 2
    /\ \E a \in 1..N1 : \E b \in 1..N2 :
          /\ scoring_matrix[a][b] =
                MatchMismatch(scoring_matrix, seq1, seq2, a, b, match, mismatch)
          /\ scoring_matrix[a][b] = InsertGapSeq1(scoring_matrix, a, b, gap)
          /\ traceback_matrix[a][b] = "D"
    /\ \E a \in 1..N1 : \E b \in 1..N2 : traceback_matrix[a][b] = "L"

\* C10: the traceback loop terminates with (i,j) = (0,0): every cell it
\* visits carries a tag in {Diagonal, Up, Left}, every iteration strictly
\* decreases i+j, neither i nor j becomes negative, no index fault occurs and
\* the function returns.
C10_TracebackTerminates ==
    /\ [](pc = "traceback" =>
            /\ i >= 0 /\ j >= 0
            /\ LoopCond(i, j) => traceback_matrix[i][j] \in {"D", "U", "L"})
    /\ [][(pc = "traceback" /\ pc' = "traceback") => i' + j' < i + j]_vars
    /\ [](pc # "IndexError")
    /\ [](pc = "returned" => (i = 0 /\ j = 0))
    /\ <>(pc \in {"done", "ZeroDivisionError"})

C10_Witness ==
    /\ pc = "returned"
    /\ i = 0 /\ j = 0
    /\ Len(traceback_path) = 4
====
